---- MODULE Spec2Model ----
(***************************************************************************)
(* A model of the JWT verifier of okta-jwt-verifier-golang                 *)
(* (jwtverifier.go): structural validation of the compact token, the       *)
(* metadata cache lookup, the adaptor decode and the claim checks of       *)
(* VerifyIdToken and VerifyAccessToken.                                    *)
(*                                                                         *)
(* Go strings are modelled as sequences of atoms.  An atom is one          *)
(* character ("a" a letter or digit, "-" the URL-safe characters '-' and   *)
(* '_', ".", "/", "=") or one of a few whole words whose characters are    *)
(* all letters and digits (the base64 headers of HeaderWords, the host     *)
(* names of the issuers).  No atom is a prefix of another one, so two      *)
(* sequences are equal exactly when the strings are.                       *)
(***************************************************************************)
EXTENDS Integers, Sequences, FiniteSets, TLC

\* ------------------------------------------------------------------ bounds
MaxTokenLen == 4      \* longest token made of single characters
MaxTailLen == 4       \* longest character tail after a header word
NumProcs == 2         \* concurrent callers of one verifier
MaxFetches == 2       \* fetch invocations counted before the model stops
MaxNow == 2           \* clock ticks after construction
MaxTimeout == 2       \* largest configured cache TTL, in ticks
MaxListLen == 2       \* longest list held by an aud or cid claim

\* ------------------------------------------------------- strings and JSON
Chars == {"a", "-", ".", "/", "="}

\* The header words: base64 (standard alphabet, unpadded) of a JSON text.
W_RS256 == "eyJhbGciOiJSUzI1NiIsInR5cCI6IkpXVCIsImtpZCI6Im15b3JnIn0"
W_HS256 == "ew0KICAia2lkIjogImFiYzEyMyIsDQogICJhbGciOiAiSFMyNTYiDQp9"
W_NOALG == "ew0KICAia2lkIjogImFiYzEyMyIsDQogICJhbmQiOiAidGhpcyINCn0"
W_NOKID == "ew0KICAiYWxnIjogIlJTMjU2IiwNCiAgImFuZCI6ICJ0aGlzIg0KfQ"
W_HSNOKID == "eyJhbGciOiJIUzI1NiJ9"
W_NUMALG == "eyJhbGciOjEsImtpZCI6ImsifQ"
W_LOWER == "eyJhbGciOiJyczI1NiIsImtpZCI6ImsifQ"
W_EMPTY == "e30"
W_NULL == "bnVsbA"
W_ARRAY == "W10"

HeaderWords ==
  {W_RS256, W_HS256, W_NOALG, W_NOKID, W_HSNOKID, W_NUMALG, W_LOWER,
   W_EMPTY, W_NULL, W_ARRAY}

\* len() of an atom, in bytes.
AtomLen(a) ==
  CASE a = W_RS256 -> 55
    [] a = W_HS256 -> 56
    [] a = W_NOALG -> 55
    [] a = W_NOKID -> 54
    [] a = W_HSNOKID -> 20
    [] a = W_NUMALG -> 26
    [] a = W_LOWER -> 34
    [] a = W_EMPTY -> 3
    [] a = W_NULL -> 6
    [] a = W_ARRAY -> 3
    [] OTHER -> 1

RECURSIVE StrLen(_)
StrLen(s) == IF s = <<>> THEN 0 ELSE AtomLen(Head(s)) + StrLen(Tail(s))

\* A value held in an interface{}: the dynamic type and the value of it.
\* s is a string, n a number, l the elements of a []string, e the elements
\* of a []interface{} (each one a value without elements of its own).
Absent == [t |-> "absent", s |-> <<>>, n |-> 0]
Elem(t, s, n) == [t |-> t, s |-> s, n |-> n]
Val(t, s, n, l, e) == [t |-> t, s |-> s, n |-> n, l |-> l, e |-> e]
Nil == Val("nil", <<>>, 0, <<>>, <<>>)
Str(s) == Val("string", s, 0, <<>>, <<>>)
Num(n) == Val("float64", <<>>, n, <<>>, <<>>)
Bool == Val("bool", <<>>, 1, <<>>, <<>>)
StrList(l) == Val("[]string", <<>>, 0, l, <<>>)
AnyList(e) == Val("[]interface{}", <<>>, 0, <<>>, e)
EStr(s) == Elem("string", s, 0)
ENum(n) == Elem("float64", <<>>, n)

\* ------------------------------------------------------------------ errors
\* An error: the message of the innermost fmt.Errorf / errors.New, the
\* operands formatted into it (a URL, a status code), and the message of
\* the wrapping fmt.Errorf("...%w") when there is one.
Err(wrap, msg) == [wrap |-> wrap, msg |-> msg, url |-> <<>>, code |-> 0]
NoErr == Err("", "")

ErrEmptyString == "JwtEmptyStringError"
ErrShape == "token must contain at least 1 period ('.') and only characters 'a-Z 0-9 _'"
ErrBase64 == "the tokens header does not appear to be a base64 encoded string"
ErrJson == "the tokens header is not a json object"
ErrNoAlg == "the tokens header must contain an 'alg'"
ErrNoKid == "the tokens header must contain a 'kid'"
ErrAlg == "the only supported alg is RS256"
WrapNotValid == "token is not valid: %w"

\* ------------------------------------------------- the compiled pattern
\* regx, matched with MatchString: the pattern is not anchored at the
\* start, so it matches when some suffix of the string has the shape
\*     W+ '.' W+ '.'? W+ [/W]+      with W = [a-zA-Z0-9-_].
\* The matcher runs the pattern's automaton over the characters; state 0
\* (before the first W) is entered anew at every position.  A run of k equal
\* characters stops early once the set of states no longer changes.
CharClass(a) ==
  CASE a = "." -> "."
    [] a = "/" -> "/"
    [] a = "=" -> "x"
    [] OTHER -> "w"

RegxStep(S, c) ==
  {0}
  \cup (IF c = "w" /\ (0 \in S \/ 1 \in S) THEN {1} ELSE {})
  \cup (IF c = "." /\ 1 \in S THEN {2} ELSE {})
  \cup (IF c = "w" /\ (2 \in S \/ 3 \in S) THEN {3} ELSE {})
  \cup (IF c = "." /\ 3 \in S THEN {4} ELSE {})
  \cup (IF c = "w" /\ (3 \in S \/ 4 \in S \/ 5 \in S) THEN {5} ELSE {})
  \cup (IF c \in {"w", "/"} /\ (5 \in S \/ 6 \in S) THEN {6} ELSE {})

RECURSIVE RegxRepeat(_, _, _)
RegxRepeat(S, c, k) ==
  IF k = 0 THEN S
  ELSE LET S2 == RegxStep(S, c)
       IN IF S2 = S THEN S ELSE RegxRepeat(S2, c, k - 1)

RECURSIVE RegxRun(_, _)
RegxRun(S, s) ==
  IF s = <<>> THEN S
  ELSE RegxRun(RegxRepeat(S, CharClass(Head(s)), AtomLen(Head(s))), Tail(s))

regx(s) == 6 \in RegxRun({0}, s)

\* ------------------------------------------------------------- isValidJwt
\* strings.Split(jwt, ".")[0]
RECURSIVE FirstPart(_)
FirstPart(s) ==
  IF s = <<>> \/ Head(s) = "." THEN <<>> ELSE <<Head(s)>> \o FirstPart(Tail(s))

Repeat(a, k) == [i \in 1..k |-> a]

padHeader(header) ==
  LET i == StrLen(header) % 4
  IN IF i # 0 THEN header \o Repeat("=", 4 - i) ELSE header

\* The characters of the standard base64 alphabet ('+' is not in Chars).
IsStdChar(a) == a \notin {"-", ".", "="}

RECURSIVE TrailingPads(_)
TrailingPads(s) ==
  IF s # <<>> /\ s[Len(s)] = "=" THEN 1 + TrailingPads(SubSeq(s, 1, Len(s) - 1))
  ELSE 0

\* The JSON text a byte string holds, as far as json.Unmarshal into a
\* map[string]interface{} tells texts apart: an object with its members
\* alg and kid, the literal null, or anything else.
JsonObject(alg, kid) == [kind |-> "object", alg |-> alg, kid |-> kid]
JsonNull == [kind |-> "null", alg |-> Absent, kid |-> Absent]
JsonOther == [kind |-> "other", alg |-> Absent, kid |-> Absent]

WordText(w) ==
  CASE w = W_RS256 -> JsonObject(EStr(<<"RS256">>), EStr(<<"myorg">>))
    [] w = W_HS256 -> JsonObject(EStr(<<"HS256">>), EStr(<<"abc123">>))
    [] w = W_NOALG -> JsonObject(Absent, EStr(<<"abc123">>))
    [] w = W_NOKID -> JsonObject(EStr(<<"RS256">>), Absent)
    [] w = W_HSNOKID -> JsonObject(EStr(<<"HS256">>), Absent)
    [] w = W_NUMALG -> JsonObject(ENum(1), EStr(<<"k">>))
    [] w = W_LOWER -> JsonObject(EStr(<<"rs256">>), EStr(<<"k">>))
    [] w = W_EMPTY -> JsonObject(Absent, Absent)
    [] w = W_NULL -> JsonNull
    [] OTHER -> JsonOther

\* base64.StdEncoding.DecodeString: the padded input is a multiple of four
\* characters long; it is rejected when a character before the padding is
\* outside the alphabet or when more than two '=' end it.  The bytes of a
\* lone header word are its JSON text; a word with characters around it,
\* and every run of single characters, decodes to bytes that are no JSON.
DecodeString(s) ==
  LET p == TrailingPads(s)
      body == SubSeq(s, 1, Len(s) - p)
      ok == /\ StrLen(s) % 4 = 0
            /\ p <= 2
            /\ \A i \in 1..Len(body) : IsStdChar(body[i])
  IN [ok |-> ok,
      bytes |-> IF ok /\ Len(body) = 1 /\ body[1] \in HeaderWords
                THEN WordText(body[1]) ELSE JsonOther]

\* json.Unmarshal(bytes, &jsonObject) with jsonObject a map: an object
\* fills the map, null leaves it nil (every lookup misses), the rest fails.
Unmarshal(text) ==
  [ok |-> text.kind \in {"object", "null"},
   alg |-> IF text.kind = "object" THEN text.alg ELSE Absent,
   kid |-> IF text.kind = "object" THEN text.kid ELSE Absent]

\* isValidJwt with the header decoded before the pattern is tried.
isValidJwtDecodeFirst(jwt) ==
  IF jwt = <<>> THEN [ok |-> FALSE, err |-> Err("", ErrEmptyString)]
  ELSE LET headerDecoded == DecodeString(padHeader(FirstPart(jwt)))
           jsonObject == Unmarshal(headerDecoded.bytes)
       IN IF ~headerDecoded.ok THEN [ok |-> FALSE, err |-> Err("", ErrBase64)]
          ELSE IF ~regx(jwt) THEN [ok |-> FALSE, err |-> Err("", ErrShape)]
          ELSE IF ~jsonObject.ok THEN [ok |-> FALSE, err |-> Err("", ErrJson)]
          ELSE IF jsonObject.alg = Absent THEN [ok |-> FALSE, err |-> Err("", ErrNoAlg)]
          ELSE IF jsonObject.kid = Absent THEN [ok |-> FALSE, err |-> Err("", ErrNoKid)]
          ELSE IF jsonObject.alg # EStr(<<"RS256">>) THEN [ok |-> FALSE, err |-> Err("", ErrAlg)]
          ELSE [ok |-> TRUE, err |-> NoErr]

\* isValidJwt with the alg compared without regard to case.
isValidJwtAnyCase(jwt) ==
  IF jwt = <<>> THEN [ok |-> FALSE, err |-> Err("", ErrEmptyString)]
  ELSE IF ~regx(jwt) THEN [ok |-> FALSE, err |-> Err("", ErrShape)]
  ELSE LET headerDecoded == DecodeString(padHeader(FirstPart(jwt)))
           jsonObject == Unmarshal(headerDecoded.bytes)
       IN IF ~headerDecoded.ok THEN [ok |-> FALSE, err |-> Err("", ErrBase64)]
          ELSE IF ~jsonObject.ok THEN [ok |-> FALSE, err |-> Err("", ErrJson)]
          ELSE IF jsonObject.alg = Absent THEN [ok |-> FALSE, err |-> Err("", ErrNoAlg)]
          ELSE IF jsonObject.kid = Absent THEN [ok |-> FALSE, err |-> Err("", ErrNoKid)]
          ELSE IF jsonObject.alg \notin {EStr(<<"RS256">>), EStr(<<"rs256">>)}
          THEN [ok |-> FALSE, err |-> Err("", ErrAlg)]
          ELSE [ok |-> TRUE, err |-> NoErr]

\* isValidJwt with the kid looked up before the alg.
isValidJwtKidFirst(jwt) ==
  IF jwt = <<>> THEN [ok |-> FALSE, err |-> Err("", ErrEmptyString)]
  ELSE IF ~regx(jwt) THEN [ok |-> FALSE, err |-> Err("", ErrShape)]
  ELSE LET headerDecoded == DecodeString(padHeader(FirstPart(jwt)))
           jsonObject == Unmarshal(headerDecoded.bytes)
       IN IF ~headerDecoded.ok THEN [ok |-> FALSE, err |-> Err("", ErrBase64)]
          ELSE IF ~jsonObject.ok THEN [ok |-> FALSE, err |-> Err("", ErrJson)]
          ELSE IF jsonObject.kid = Absent THEN [ok |-> FALSE, err |-> Err("", ErrNoKid)]
          ELSE IF jsonObject.alg = Absent THEN [ok |-> FALSE, err |-> Err("", ErrNoAlg)]
          ELSE IF jsonObject.alg # EStr(<<"RS256">>) THEN [ok |-> FALSE, err |-> Err("", ErrAlg)]
          ELSE [ok |-> TRUE, err |-> NoErr]

isValidJwt(jwt) ==
  IF jwt = <<>> THEN [ok |-> FALSE, err |-> Err("", ErrEmptyString)]
  ELSE IF ~regx(jwt) THEN [ok |-> FALSE, err |-> Err("", ErrShape)]
  ELSE LET headerDecoded == DecodeString(padHeader(FirstPart(jwt)))
           jsonObject == Unmarshal(headerDecoded.bytes)
       IN IF ~headerDecoded.ok THEN [ok |-> FALSE, err |-> Err("", ErrBase64)]
          ELSE IF ~jsonObject.ok THEN [ok |-> FALSE, err |-> Err("", ErrJson)]
          ELSE IF jsonObject.alg = Absent THEN [ok |-> FALSE, err |-> Err("", ErrNoAlg)]
          ELSE IF jsonObject.kid = Absent THEN [ok |-> FALSE, err |-> Err("", ErrNoKid)]
          ELSE IF jsonObject.alg # EStr(<<"RS256">>) THEN [ok |-> FALSE, err |-> Err("", ErrAlg)]
          ELSE [ok |-> TRUE, err |-> NoErr]


\* --------------------------------------------------------------- the state
VARIABLES
  Issuer,            \* JwtVerifier.Issuer
  Adaptor,           \* JwtVerifier.Adaptor: "nil" or the adaptor in use
  ClaimsToValidate,  \* JwtVerifier.ClaimsToValidate, a map[string]string
  leeway,            \* JwtVerifier.leeway, seconds
  Timeout,           \* JwtVerifier.Timeout, seconds
  Cleanup,           \* JwtVerifier.Cleanup, seconds
  metadataCache,     \* JwtVerifier.metadataCache: its TTL, entries, fetches in flight
  now,               \* time.Now().Unix(), counted from the construction
  fetchCount,        \* invocations of fetchMetaData so far
  pc,                \* where each caller stands in its verification
  call,              \* the function each caller is in and its argument
  got,               \* what metadataCache.Get handed to each caller
  ret,               \* the latest return of a verification
  checked            \* the latest direct call of a claim check

vars ==
  <<Issuer, Adaptor, ClaimsToValidate, leeway, Timeout, Cleanup, metadataCache, now,
    fetchCount, pc, call, got, ret, checked>>

config == <<Issuer, ClaimsToValidate, leeway, Timeout, Cleanup>>

Procs == 1..NumProcs

\* A map[string]string is a function on the keys it holds; a lookup of a
\* missing key gives the empty string.
MapHas(m, k) == k \in DOMAIN m
MapGet(m, k) == IF k \in DOMAIN m THEN m[k] ELSE <<>>

\* --------------------------------------------------------- claim checks
ErrNonce == "nonce: %s does not match %s"
ErrAud == "aud: %s does not match %s"
ErrAudType == "unknown type for audience validation"
ErrCid == "cid: %s does not match %s"
ErrCidType == "unknown type for clientId validation"
ErrExpMissing == "exp: missing"
ErrExpired == "the token is expired"
ErrIatMissing == "iat: missing"
ErrIatFuture == "the token was issued in the future"
ErrIss == "iss: %s does not match %s"

\* interface{} == string: the dynamic type is string and the values agree.
IfaceEqStr(v, s) == v.t = "string" /\ v.s = s

\* validateNonce that checks the claim only when a nonce is configured.
validateNonceOptional(nonce) ==
  LET n == IF nonce.t = "nil" THEN Str(<<>>) ELSE nonce
  IN IF MapHas(ClaimsToValidate, "nonce") /\ ~IfaceEqStr(n, MapGet(ClaimsToValidate, "nonce"))
     THEN Err("", ErrNonce) ELSE NoErr

validateNonce(nonce) ==
  LET n == IF nonce.t = "nil" THEN Str(<<>>) ELSE nonce
  IN IF ~IfaceEqStr(n, MapGet(ClaimsToValidate, "nonce"))
     THEN Err("", ErrNonce) ELSE NoErr

\* The index of the first element of a []interface{} that ends the loop of
\* validateAudience (a non-string, or the expected value), 0 if none does.
RECURSIVE FirstStop(_, _, _)
FirstStop(e, expected, i) ==
  IF i > Len(e) THEN 0
  ELSE IF e[i].t # "string" \/ e[i].s = expected THEN i
  ELSE FirstStop(e, expected, i + 1)

\* validateAudience without the case of a JSON-decoded list.
validateAudienceTypedOnly(audience) ==
  LET expectedAudience == MapGet(ClaimsToValidate, "aud")
  IN IF ~MapHas(ClaimsToValidate, "aud") \/ IfaceEqStr(audience, expectedAudience)
     THEN NoErr
     ELSE CASE audience.t = "string" -> Err("", ErrAud)
            [] audience.t = "[]string" ->
                 IF \E i \in 1..Len(audience.l) : audience.l[i] = expectedAudience
                 THEN NoErr ELSE Err("", ErrAud)
            [] OTHER -> Err("", ErrAudType)

\* validateAudience that looks at the type of every element of a
\* JSON-decoded list before it compares any.
validateAudienceTypesFirst(audience) ==
  LET expectedAudience == MapGet(ClaimsToValidate, "aud")
  IN IF ~MapHas(ClaimsToValidate, "aud") \/ IfaceEqStr(audience, expectedAudience)
     THEN NoErr
     ELSE CASE audience.t = "string" -> Err("", ErrAud)
            [] audience.t = "[]string" ->
                 IF \E i \in 1..Len(audience.l) : audience.l[i] = expectedAudience
                 THEN NoErr ELSE Err("", ErrAud)
            [] audience.t = "[]interface{}" ->
                 IF \E i \in 1..Len(audience.e) : audience.e[i].t # "string"
                 THEN Err("", ErrAudType)
                 ELSE IF \E i \in 1..Len(audience.e) : audience.e[i].s = expectedAudience
                 THEN NoErr ELSE Err("", ErrAud)
            [] OTHER -> Err("", ErrAudType)

validateAudience(audience) ==
  LET expectedAudience == MapGet(ClaimsToValidate, "aud")
  IN IF ~MapHas(ClaimsToValidate, "aud") \/ IfaceEqStr(audience, expectedAudience)
     THEN NoErr
     ELSE CASE audience.t = "string" -> Err("", ErrAud)
            [] audience.t = "[]string" ->
                 IF \E i \in 1..Len(audience.l) : audience.l[i] = expectedAudience
                 THEN NoErr ELSE Err("", ErrAud)
            [] audience.t = "[]interface{}" ->
                 LET i == FirstStop(audience.e, expectedAudience, 1)
                 IN IF i = 0 THEN Err("", ErrAud)
                    ELSE IF audience.e[i].t # "string" THEN Err("", ErrAudType)
                    ELSE NoErr
            [] OTHER -> Err("", ErrAudType)

\* validateClientId that checks the claim whether or not a cid is configured.
validateClientIdRequired(clientId) ==
  LET cid == MapGet(ClaimsToValidate, "cid")
  IN IF ~IfaceEqStr(clientId, cid)
     THEN CASE clientId.t = "string" -> Err("", ErrCid)
            [] clientId.t = "[]string" ->
                 IF \E i \in 1..Len(clientId.l) : clientId.l[i] = cid
                 THEN NoErr ELSE Err("", ErrCid)
            [] OTHER -> Err("", ErrCidType)
     ELSE NoErr

validateClientId(clientId) ==
  LET cid == MapGet(ClaimsToValidate, "cid")
  IN IF MapHas(ClaimsToValidate, "cid") /\ ~IfaceEqStr(clientId, cid)
     THEN CASE clientId.t = "string" -> Err("", ErrCid)
            [] clientId.t = "[]string" ->
                 IF \E i \in 1..Len(clientId.l) : clientId.l[i] = cid
                 THEN NoErr ELSE Err("", ErrCid)
            [] OTHER -> Err("", ErrCidType)
     ELSE NoErr

\* validateExp that also rejects a token at the very edge of the leeway.
validateExpAtEdge(exp) ==
  IF exp.t # "float64" THEN Err("", ErrExpMissing)
  ELSE IF now - leeway >= exp.n THEN Err("", ErrExpired)
  ELSE NoErr

validateExp(exp) ==
  IF exp.t # "float64" THEN Err("", ErrExpMissing)
  ELSE IF now - leeway > exp.n THEN Err("", ErrExpired)
  ELSE NoErr

\* validateIat that also rejects a token at the very edge of the leeway.
validateIatAtEdge(iat) ==
  IF iat.t # "float64" THEN Err("", ErrIatMissing)
  ELSE IF now + leeway <= iat.n THEN Err("", ErrIatFuture)
  ELSE NoErr

validateIat(iat) ==
  IF iat.t # "float64" THEN Err("", ErrIatMissing)
  ELSE IF now + leeway < iat.n THEN Err("", ErrIatFuture)
  ELSE NoErr

\* fmt.Sprintf("%v", s)
RECURSIVE JoinSpace(_)
JoinSpace(l) ==
  IF l = <<>> THEN <<>>
  ELSE IF Len(l) = 1 THEN l[1]
  ELSE l[1] \o <<" ">> \o JoinSpace(Tail(l))

ElemSprintf(x) ==
  CASE x.t = "string" -> x.s
    [] x.t = "float64" -> <<ToString(x.n)>>
    [] OTHER -> <<"<nil>">>

Sprintf(v) ==
  CASE v.t = "string" -> v.s
    [] v.t = "nil" -> <<"<nil>">>
    [] v.t = "float64" -> <<ToString(v.n)>>
    [] v.t = "bool" -> <<"true">>
    [] v.t = "[]string" -> <<"[">> \o JoinSpace(v.l) \o <<"]">>
    [] OTHER -> <<"[">> \o JoinSpace([i \in 1..Len(v.e) |-> ElemSprintf(v.e[i])]) \o <<"]">>

\* strings.TrimRight(str, "/")
RECURSIVE TrimRight(_)
TrimRight(str) ==
  IF str # <<>> /\ str[Len(str)] = "/" THEN TrimRight(SubSeq(str, 1, Len(str) - 1))
  ELSE str

normalizeIssuer(s) == TrimRight(Sprintf(s))

\* validateIss that normalizes the claim and not the configured issuer.
validateIssClaimOnly(issuer) ==
  LET normalizedIssuer == normalizeIssuer(issuer)
      expectedIssuer == Issuer
  IN IF normalizedIssuer # expectedIssuer THEN Err("", ErrIss) ELSE NoErr

validateIss(issuer) ==
  LET normalizedIssuer == normalizeIssuer(issuer)
      expectedIssuer == normalizeIssuer(Str(Issuer))
  IN IF normalizedIssuer # expectedIssuer THEN Err("", ErrIss) ELSE NoErr


\* ------------------------------------------------------------- metadata
\* Discovery.GetWellKnownUrl() of the default (OIDC) discovery.
WellKnownUrl == <<"/", ".well-known", "/", "openid-configuration">>

\* What the HTTP client answers to a GET: a transport error, or a status
\* code and a body; the body is a JSON text (an object with or without a
\* jwks_uri member, null, or something that is no object).
Response(failed, StatusCode, kind, jwks_uri) ==
  [failed |-> failed, StatusCode |-> StatusCode, kind |-> kind, jwks_uri |-> jwks_uri]

NoResponse == Response(FALSE, 0, "none", Absent)

JwksUri == <<"https://example.com", "/", "keys">>

\* A metadata document, a map[string]interface{}: its jwks_uri member.
Metadata(jwks_uri) == [jwks_uri |-> jwks_uri]
NoMetadata == Metadata(Absent)

ErrRequest == "request for metadata was not successful: %w"
ErrStatus == "request for metadata %q was not HTTP 2xx OK, it was: %d"
ErrBody == "json: cannot unmarshal into Go value of type map[string]interface {}"
ErrJwksUri == "failed to decode JWT: missing 'jwks_uri' from metadata"
ErrDecode == "could not decode token: %w"

\* The result of a fetch or of a cache lookup: the value, the error, and the
\* response it was made from (NoResponse for a value served from the cache).
Result(value, err, resp) == [value |-> value, err |-> err, resp |-> resp]

\* fetchMetaData that takes the status 300 for a success.
fetchMetaDataUpTo300(url, resp) ==
  IF resp.failed THEN Result(NoMetadata, Err(ErrRequest, "Get"), resp)
  ELSE IF ~(resp.StatusCode >= 200 /\ resp.StatusCode <= 300)
  THEN Result(NoMetadata,
              [wrap |-> "", msg |-> ErrStatus, url |-> url, code |-> resp.StatusCode],
              resp)
  ELSE IF resp.kind \notin {"object", "null"}
  THEN Result(NoMetadata, Err("", ErrBody), resp)
  ELSE Result(Metadata(IF resp.kind = "object" THEN resp.jwks_uri ELSE Absent),
              NoErr, resp)

fetchMetaData(url, resp) ==
  IF resp.failed THEN Result(NoMetadata, Err(ErrRequest, "Get"), resp)
  ELSE IF ~(resp.StatusCode >= 200 /\ resp.StatusCode < 300)
  THEN Result(NoMetadata,
              [wrap |-> "", msg |-> ErrStatus, url |-> url, code |-> resp.StatusCode],
              resp)
  ELSE IF resp.kind \notin {"object", "null"}
  THEN Result(NoMetadata, Err("", ErrBody), resp)
  ELSE Result(Metadata(IF resp.kind = "object" THEN resp.jwks_uri ELSE Absent),
              NoErr, resp)

\* --------------------------------------------------------- the pipeline
\* (the messages are written without the backquotes around the claim's name)
WrapIss == "the Issuer was not able to be validated. %w"
WrapAud == "the Audience was not able to be validated. %w"
WrapCid == "the Client Id was not able to be validated. %w"
WrapExp == "the Expiration was not able to be validated. %w"
WrapIat == "the Issued At was not able to be validated. %w"
WrapNonce == "the Nonce was not able to be validated. %w"

\* The decoded token, a map[string]interface{}: a missing claim reads as nil.
Token(iss, aud, cid, exp, iat, nonce) ==
  [iss |-> iss, aud |-> aud, cid |-> cid, exp |-> exp, iat |-> iat, nonce |-> nonce]
NoToken == Token(Nil, Nil, Nil, Nil, Nil, Nil)

\* One claim check of the verify functions and the message that wraps its error.
Check(name, token) ==
  CASE name = "validateIss" -> validateIss(token.iss)
    [] name = "validateAudience" -> validateAudience(token.aud)
    [] name = "validateClientId" -> validateClientId(token.cid)
    [] name = "validateExp" -> validateExp(token.exp)
    [] name = "validateIat" -> validateIat(token.iat)
    [] name = "validateNonce" -> validateNonce(token.nonce)

WrapOf(name) ==
  CASE name = "validateIss" -> WrapIss
    [] name = "validateAudience" -> WrapAud
    [] name = "validateClientId" -> WrapCid
    [] name = "validateExp" -> WrapExp
    [] name = "validateIat" -> WrapIat
    [] name = "validateNonce" -> WrapNonce

\* The checks each function makes, in the order of its statements.
\* The checks of VerifyIdToken with the nonce checked before the audience.
IdTokenChecksNonceEarly ==
  <<"validateIss", "validateNonce", "validateAudience", "validateExp", "validateIat">>

IdTokenChecks ==
  <<"validateIss", "validateAudience", "validateExp", "validateIat", "validateNonce">>

\* The checks of VerifyAccessToken with the nonce check of VerifyIdToken added.
AccessTokenChecksWithNonce ==
  <<"validateIss", "validateAudience", "validateClientId", "validateExp", "validateIat",
    "validateNonce">>

AccessTokenChecks ==
  <<"validateIss", "validateAudience", "validateClientId", "validateExp", "validateIat">>

ChecksOf(fn) == IF fn = "VerifyIdToken" THEN IdTokenChecks ELSE AccessTokenChecks

\* Runs the checks from the i-th on and returns at the first error; ran
\* lists the checks that were called.
RECURSIVE RunChecks(_, _, _)
RunChecks(checks, token, i) ==
  IF i > Len(checks) THEN [err |-> NoErr, ran |-> <<>>]
  ELSE LET err == Check(checks[i], token)
       IN IF err # NoErr
          THEN [err |-> [err EXCEPT !.wrap = WrapOf(checks[i])], ran |-> <<checks[i]>>]
          ELSE LET rest == RunChecks(checks, token, i + 1)
               IN [err |-> rest.err, ran |-> <<checks[i]>> \o rest.ran]

\* A *Jwt: nil, or a Jwt with its Claims.
NilJwt == [nil |-> TRUE, Claims |-> NoToken]
Jwt(Claims) == [nil |-> FALSE, Claims |-> Claims]

\* The return of a verify function with the record of the call: who called
\* what with which token, the stages that ran, the token the adaptor
\* decoded when it did, and the response the metadata was fetched from.
Return(p, c, jwt, err, trace, decoded, resp) ==
  [p |-> p, fn |-> c.fn, arg |-> c.jwt, jwt |-> jwt, err |-> err,
   trace |-> trace, decoded |-> decoded, resp |-> resp]

NoCall == [fn |-> "", jwt |-> <<>>]
NoReturn == Return(0, NoCall, NilJwt, NoErr, <<>>, NilJwt, NoResponse)
NoGot == Result(NoMetadata, NoErr, NoResponse)

\* What Adaptor.Decode answers: an error or the decoded token.
Decoded(failed, token) == [failed |-> failed, token |-> token]

\* Verify that returns no Jwt along with the error of a claim check.
VerifyNilOnError(p, c, g, d) ==
  LET stages == <<"isValidJwt", "getMetaData">>
  IN IF g.err # NoErr THEN Return(p, c, NilJwt, g.err, stages, NilJwt, g.resp)
     ELSE IF g.value.jwks_uri.t # "string"
     THEN Return(p, c, NilJwt, Err("", ErrJwksUri), stages, NilJwt, g.resp)
     ELSE IF d.failed
     THEN Return(p, c, NilJwt, Err(ErrDecode, "Decode"), stages \o <<"Decode">>,
                 NilJwt, g.resp)
     ELSE LET r == RunChecks(ChecksOf(c.fn), d.token, 1)
          IN Return(p, c, IF r.err = NoErr THEN Jwt(d.token) ELSE NilJwt, r.err,
                    stages \o <<"Decode">> \o r.ran, Jwt(d.token), g.resp)

\* Verify that goes on to the claim checks when the adaptor's decode failed.
VerifyDecodeUnchecked(p, c, g, d) ==
  LET stages == <<"isValidJwt", "getMetaData">>
  IN IF g.err # NoErr THEN Return(p, c, NilJwt, g.err, stages, NilJwt, g.resp)
     ELSE IF g.value.jwks_uri.t # "string"
     THEN Return(p, c, NilJwt, Err("", ErrJwksUri), stages, NilJwt, g.resp)
     ELSE LET r == RunChecks(ChecksOf(c.fn), d.token, 1)
          IN Return(p, c, Jwt(d.token), r.err, stages \o <<"Decode">> \o r.ran,
                    IF d.failed THEN NilJwt ELSE Jwt(d.token), g.resp)

\* Verify that hands the jwks_uri to the adaptor without looking at it.
VerifyJwksUriUnchecked(p, c, g, d) ==
  LET stages == <<"isValidJwt", "getMetaData">>
  IN IF g.err # NoErr THEN Return(p, c, NilJwt, g.err, stages, NilJwt, g.resp)
     ELSE IF d.failed
     THEN Return(p, c, NilJwt, Err(ErrDecode, "Decode"), stages \o <<"Decode">>,
                 NilJwt, g.resp)
     ELSE LET r == RunChecks(ChecksOf(c.fn), d.token, 1)
          IN Return(p, c, Jwt(d.token), r.err, stages \o <<"Decode">> \o r.ran,
                    Jwt(d.token), g.resp)

\* decodeJwt from the return of getMetaData on, and the claim checks.
\* g is what metadataCache.Get returned, d what the adaptor answers if asked.
Verify(p, c, g, d) ==
  LET stages == <<"isValidJwt", "getMetaData">>
  IN IF g.err # NoErr THEN Return(p, c, NilJwt, g.err, stages, NilJwt, g.resp)
     ELSE IF g.value.jwks_uri.t # "string"
     THEN Return(p, c, NilJwt, Err("", ErrJwksUri), stages, NilJwt, g.resp)
     ELSE IF d.failed
     THEN Return(p, c, NilJwt, Err(ErrDecode, "Decode"), stages \o <<"Decode">>,
                 NilJwt, g.resp)
     ELSE LET r == RunChecks(ChecksOf(c.fn), d.token, 1)
          IN Return(p, c, Jwt(d.token), r.err, stages \o <<"Decode">> \o r.ran,
                    Jwt(d.token), g.resp)


\* ---------------------------------------------------- the metadata cache
\* utils.Cacher as New() builds it from j.Cache(j.fetchMetaData, j.Timeout,
\* j.Cleanup): a keyed store of fetched values.  An entry holds the value,
\* the time it was stored and the time it expires; inflight holds the keys
\* a fetch is running for.
Entry(key, value, at, expires) ==
  [key |-> key, value |-> value, at |-> at, expires |-> expires]

NewDefaultCache(ttl, cleanup) ==
  [ttl |-> ttl, cleanup |-> cleanup, entries |-> {}, inflight |-> {}]

\* Live that still serves an entry at the very time it expires.
LiveAtExpiry(cache, key, t) == {e \in cache.entries : e.key = key /\ t <= e.expires}

\* The entries of a key that have not expired at time t (at most one).
Live(cache, key, t) == {e \in cache.entries : e.key = key /\ t < e.expires}

\* CacheStore that stores the value of a failed fetch as well.
CacheStoreAlways(cache, key, r, t) ==
  [cache EXCEPT
     !.entries = {e \in @ : e.key # key} \cup {Entry(key, r.value, t, t + cache.ttl)},
     !.inflight = @ \ {key}]

\* A successful fetch is stored with expiry = now + TTL, a failed one is not
\* stored; either way the fetch for the key is no longer in flight.
CacheStore(cache, key, r, t) ==
  [cache EXCEPT
     !.entries = IF r.err = NoErr
                 THEN {e \in @ : e.key # key} \cup {Entry(key, r.value, t, t + cache.ttl)}
                 ELSE @,
     !.inflight = @ \ {key}]

\* CacheGet that starts a fetch whether or not one is in flight for the key.
CacheGetNoWait(cache, key, t) ==
  LET live == Live(cache, key, t)
  IN IF live # {}
     THEN [how |-> "hit", value |-> (CHOOSE e \in live : TRUE).value, cache |-> cache]
     ELSE [how |-> "fetch", value |-> NoMetadata,
           cache |-> [cache EXCEPT !.entries = {e \in @ : e.key # key},
                                   !.inflight = @ \cup {key}]]

\* Get without the wait: a live entry is a hit; a key with a fetch in flight
\* makes the caller wait for that fetch; otherwise the caller is to fetch,
\* the key goes in flight and its expired entry, if any, is dropped.
CacheGet(cache, key, t) ==
  LET live == Live(cache, key, t)
  IN IF live # {}
     THEN [how |-> "hit", value |-> (CHOOSE e \in live : TRUE).value, cache |-> cache]
     ELSE IF key \in cache.inflight
     THEN [how |-> "wait", value |-> NoMetadata, cache |-> cache]
     ELSE [how |-> "fetch", value |-> NoMetadata,
           cache |-> [cache EXCEPT !.entries = {e \in @ : e.key # key},
                                   !.inflight = @ \cup {key}]]

\* The periodic sweep drops the entries whose expiry has passed.
CacheSweep(cache, t) == [cache EXCEPT !.entries = {e \in @ : t < e.expires}]

\* ------------------------------------------------------------ New()
DefaultTimeout == 300
DefaultCleanup == 600
DefaultLeeway == 120

\* The adaptor New() builds when none is given.
LestrratGoJwx == "lestrratGoJwx.LestrratGoJwx"

NewTimeout(t) == IF t = 0 THEN DefaultTimeout ELSE t
NewCleanup(c) == IF c = 0 THEN DefaultCleanup ELSE c

\* ------------------------------------------------------------- actions
\* A direct call of a claim check: the check, its argument, the time and the
\* leeway of the call and the error returned.
Checked(fn, arg, at, lw, err) ==
  [fn |-> fn, arg |-> arg, at |-> at, leeway |-> lw, err |-> err]
NoChecked == Checked("", Nil, 0, 0, NoErr)

MetaDataUrl == Issuer \o WellKnownUrl

\* getMetaData up to the return of metadataCache.Get(metaDataUrl), or to the
\* point where Get waits: for the fetch it started, or for the fetch in flight.
getMetaData(p, c) ==
  LET g == CacheGet(metadataCache, MetaDataUrl, now)
  IN /\ call' = [call EXCEPT ![p] = c]
     /\ g.how = "fetch" => fetchCount < MaxFetches
     /\ fetchCount' = IF g.how = "fetch" THEN fetchCount + 1 ELSE fetchCount
     /\ metadataCache' = g.cache
     /\ pc' = [pc EXCEPT ![p] = IF g.how = "hit" THEN "got" ELSE g.how]
     /\ got' = [got EXCEPT ![p] = Result(g.value, NoErr, NoResponse)]
     /\ UNCHANGED <<config, Adaptor, now, ret, checked>>

\* Enter without the early return: the metadata is asked for whatever
\* isValidJwt answers.
EnterNoEarlyReturn(p, fn, jwt) == getMetaData(p, [fn |-> fn, jwt |-> jwt])

\* A verify function up to the point where it waits for the metadata.
Enter(p, fn, jwt) ==
  LET c == [fn |-> fn, jwt |-> jwt]
      v == isValidJwt(jwt)
  IN IF ~v.ok
     THEN /\ ret' = Return(p, c, NilJwt, [v.err EXCEPT !.wrap = WrapNotValid],
                           <<"isValidJwt">>, NilJwt, NoResponse)
          /\ UNCHANGED <<config, Adaptor, metadataCache, now, fetchCount, pc, call, got, checked>>
     ELSE getMetaData(p, c)

VerifyIdToken(p, jwt) ==
  /\ pc[p] = "idle"
  /\ Enter(p, "VerifyIdToken", jwt)

VerifyAccessToken(p, jwt) ==
  /\ pc[p] = "idle"
  /\ Enter(p, "VerifyAccessToken", jwt)

\* The fetch of caller p returns: the cache stores a success, and p and
\* every caller waiting for the key get the result.
FetchDone(p, resp) ==
  /\ pc[p] = "fetch"
  /\ LET r == fetchMetaData(MetaDataUrl, resp)
         woken == {q \in Procs : q = p \/ pc[q] = "wait"}
     IN /\ metadataCache' = CacheStore(metadataCache, MetaDataUrl, r, now)
        /\ pc' = [q \in Procs |-> IF q \in woken THEN "got" ELSE pc[q]]
        /\ got' = [q \in Procs |-> IF q \in woken THEN r ELSE got[q]]
  /\ UNCHANGED <<config, Adaptor, now, fetchCount, call, ret, checked>>

\* Rest that puts the leeway back to the default of New().
RestDefaultsLeeway(p, d) ==
  /\ pc[p] = "got"
  /\ ret' = Verify(p, call[p], got[p], d)
  /\ pc' = [pc EXCEPT ![p] = "idle"]
  /\ call' = [call EXCEPT ![p] = NoCall]
  /\ got' = [got EXCEPT ![p] = NoGot]
  /\ leeway' = DefaultLeeway
  /\ UNCHANGED <<Issuer, Adaptor, ClaimsToValidate, Timeout, Cleanup, metadataCache, now,
                 fetchCount, checked>>

\* The rest of a verify function once getMetaData has returned.
Rest(p, d) ==
  /\ pc[p] = "got"
  /\ ret' = Verify(p, call[p], got[p], d)
  /\ pc' = [pc EXCEPT ![p] = "idle"]
  /\ call' = [call EXCEPT ![p] = NoCall]
  /\ got' = [got EXCEPT ![p] = NoGot]
  /\ UNCHANGED <<config, Adaptor, metadataCache, now, fetchCount, checked>>

VerifyIdTokenRest(p, d) == call[p].fn = "VerifyIdToken" /\ Rest(p, d)

VerifyAccessTokenRest(p, d) == call[p].fn = "VerifyAccessToken" /\ Rest(p, d)

Tick ==
  /\ now < MaxNow
  /\ now' = now + 1
  /\ UNCHANGED <<config, Adaptor, metadataCache, fetchCount, pc, call, got, ret, checked>>

\* The sweep runs every cleanup interval of the cache.
Sweep ==
  /\ now > 0
  /\ now % metadataCache.cleanup = 0
  /\ metadataCache' = CacheSweep(metadataCache, now)
  /\ metadataCache' # metadataCache
  /\ UNCHANGED <<config, Adaptor, now, fetchCount, pc, call, got, ret, checked>>

\* ------------------------------------------------------------- inputs
ExampleIssuer == <<"https://example.com">>
ValidJwt == <<W_RS256, ".", "a", "a", ".", "a", "a">>

GoodMetadata == Response(FALSE, 200, "object", EStr(JwksUri))
NotFound == Response(FALSE, 404, "other", Absent)

GoodToken ==
  Token(Str(ExampleIssuer), Str(<<"api://default">>), Str(<<"client1">>),
        Num(300), Num(0), Nil)

\* ------------------------------------------- the concurrent verifier
\* Callers of one verifier built with a short cache TTL and a cleanup
\* interval of one second, so that entries expire and are swept in the run.
Init ==
  /\ Issuer = ExampleIssuer
  /\ Adaptor = LestrratGoJwx
  /\ ClaimsToValidate = [k \in {"aud"} |-> <<"api://default">>]
  /\ leeway = DefaultLeeway
  /\ Timeout \in {NewTimeout(t) : t \in 1..MaxTimeout}
  /\ Cleanup = NewCleanup(1)
  /\ metadataCache = NewDefaultCache(Timeout, Cleanup)
  /\ now = 0
  /\ fetchCount = 0
  /\ pc = [p \in Procs |-> "idle"]
  /\ call = [p \in Procs |-> NoCall]
  /\ got = [p \in Procs |-> NoGot]
  /\ ret = NoReturn
  /\ checked = NoChecked

Next ==
  \/ \E p \in Procs : VerifyIdToken(p, ValidJwt)
  \/ \E p \in Procs : VerifyAccessToken(p, ValidJwt)
  \/ \E p \in Procs, resp \in {GoodMetadata, NotFound} : FetchDone(p, resp)
  \/ \E p \in Procs, d \in {Decoded(FALSE, GoodToken)} : VerifyIdTokenRest(p, d)
  \/ \E p \in Procs, d \in {Decoded(FALSE, GoodToken)} : VerifyAccessTokenRest(p, d)
  \/ Tick
  \/ Sweep

Spec == Init /\ [][Next]_vars


\* ------------------------------------------- one caller, every outcome
\* The same functions called by a single caller, with every kind of answer
\* of the metadata endpoint and of the adaptor.
OtherIssuer == <<"https://other.com">>

Expected(k) ==
  CASE k = "aud" -> <<"api://default">>
    [] k = "cid" -> <<"client1">>
    [] k = "nonce" -> <<"abc123">>

ExpectedMaps ==
  {[k \in K |-> Expected(k)] : K \in {{}, {"aud", "nonce"}, {"aud", "cid", "nonce"}}}

Responses ==
  {Response(TRUE, 0, "none", Absent),
   GoodMetadata,
   Response(FALSE, 200, "object", Absent),
   Response(FALSE, 200, "object", ENum(1)),
   Response(FALSE, 200, "null", Absent),
   Response(FALSE, 200, "other", Absent),
   Response(FALSE, 199, "object", EStr(JwksUri)),
   Response(FALSE, 299, "object", EStr(JwksUri)),
   Response(FALSE, 300, "object", EStr(JwksUri)),
   NotFound}

SomeJwts == {ValidJwt, <<>>, <<"a", "a">>, <<W_HS256, ".", "a", "a", "a">>}

Tokens ==
  {Token(iss, aud, cid, exp, iat, nonce) :
     iss \in {Str(ExampleIssuer), Str(OtherIssuer)},
     aud \in {Str(Expected("aud")), Str(<<"other">>)},
     cid \in {Str(Expected("cid")), Str(<<"other">>)},
     exp \in {Num(0), Num(0 - DefaultLeeway - 1)},
     iat \in {Num(0), Num(DefaultLeeway + 1)},
     nonce \in {Nil, Str(Expected("nonce"))}}

Decodes == {Decoded(TRUE, NoToken)} \cup {Decoded(FALSE, t) : t \in Tokens}

InitVerify ==
  /\ Issuer \in {ExampleIssuer, ExampleIssuer \o <<"/">>}
  /\ Adaptor = LestrratGoJwx
  /\ ClaimsToValidate \in ExpectedMaps
  /\ leeway = DefaultLeeway
  /\ Timeout = NewTimeout(0)
  /\ Cleanup = NewCleanup(0)
  /\ metadataCache = NewDefaultCache(Timeout, Cleanup)
  /\ now = 0
  /\ fetchCount = 0
  /\ pc = [p \in Procs |-> "idle"]
  /\ call = [p \in Procs |-> NoCall]
  /\ got = [p \in Procs |-> NoGot]
  /\ ret = NoReturn
  /\ checked = NoChecked

NextVerify ==
  \/ \E jwt \in SomeJwts : VerifyIdToken(1, jwt)
  \/ \E jwt \in SomeJwts : VerifyAccessToken(1, jwt)
  \/ \E resp \in Responses : FetchDone(1, resp)
  \/ \E d \in Decodes : VerifyIdTokenRest(1, d)
  \/ \E d \in Decodes : VerifyAccessTokenRest(1, d)

SpecVerify == InitVerify /\ [][NextVerify]_vars

\* --------------------------------------------- one caller, every token
\* The strings of at most MaxTokenLen single characters, and each header
\* word followed by at most MaxTailLen characters.
RECURSIVE CharSeqs(_)
CharSeqs(n) ==
  IF n = 0 THEN {<<>>}
  ELSE LET S == CharSeqs(n - 1)
       IN S \cup {Append(t, c) : t \in {u \in S : Len(u) = n - 1}, c \in Chars}

Jwts ==
  CharSeqs(MaxTokenLen)
  \cup {<<w>> \o t : w \in HeaderWords, t \in CharSeqs(MaxTailLen)}

InitJwt ==
  /\ Issuer = ExampleIssuer
  /\ Adaptor = LestrratGoJwx
  /\ ClaimsToValidate = [k \in {} |-> <<>>]
  /\ leeway = DefaultLeeway
  /\ Timeout = NewTimeout(0)
  /\ Cleanup = NewCleanup(0)
  /\ metadataCache = NewDefaultCache(Timeout, Cleanup)
  /\ now = 0
  /\ fetchCount = 0
  /\ pc = [p \in Procs |-> "idle"]
  /\ call = [p \in Procs |-> NoCall]
  /\ got = [p \in Procs |-> NoGot]
  /\ ret = NoReturn
  /\ checked = NoChecked

\* Each behaviour makes one call.
NextJwt ==
  \/ ret = NoReturn /\ \E jwt \in Jwts : VerifyIdToken(1, jwt)
  \/ ret = NoReturn /\ \E jwt \in Jwts : VerifyAccessToken(1, jwt)
  \/ \E resp \in {GoodMetadata, NotFound} : FetchDone(1, resp)
  \/ VerifyIdTokenRest(1, Decoded(FALSE, GoodToken))
  \/ VerifyAccessTokenRest(1, Decoded(FALSE, GoodToken))

SpecJwt == InitJwt /\ [][NextJwt]_vars

\* ------------------------------------------- the claim checks, called alone
\* SetLeeway(duration): time.ParseDuration, whose error is dropped (the
\* duration is then 0), and int64(dur.Seconds()), which truncates toward 0.
\* The durations are given with their length in milliseconds.
Durations == {"120s", "2m", "0s", "1500ms", "-1500ms", "1m", "soon"}

ParseDuration(duration) ==
  CASE duration = "120s" -> 120000
    [] duration = "2m" -> 120000
    [] duration = "0s" -> 0
    [] duration = "1500ms" -> 1500
    [] duration = "-1500ms" -> 0 - 1500
    [] duration = "1m" -> 60000
    [] OTHER -> 0

Int64Seconds(ms) == IF ms >= 0 THEN ms \div 1000 ELSE 0 - ((0 - ms) \div 1000)

SetLeeway(duration) ==
  /\ leeway' = Int64Seconds(ParseDuration(duration))
  /\ UNCHANGED <<Issuer, Adaptor, ClaimsToValidate, Timeout, Cleanup, metadataCache, now,
                 fetchCount, pc, call, got, ret, checked>>

\* The exp claims tried: the values of the package's tests at time 0, the
\* values around now - leeway for the times and leeways of the model, and
\* values that are no number.
ExpValues ==
  {Num(n) : n \in {0 - 1000, 0 - 300} \cup (0 - 122)..(0 - 116)
                  \cup (0 - 61)..(0 - 56) \cup (0 - 2)..(MaxNow + 2)}
  \cup {Nil, Str(<<"0">>), Bool}

CallValidateExp(exp) ==
  /\ checked' = Checked("validateExp", exp, now, leeway, validateExp(exp))
  /\ UNCHANGED <<config, Adaptor, metadataCache, now, fetchCount, pc, call, got, ret>>

\* The iat claims tried: the values of the package's tests at time 0, the
\* values around now + leeway for the times and leeways of the model, and
\* values that are no number.
IatValues ==
  {Num(n) : n \in {1000, 300} \cup 116..(MaxNow + 122) \cup 56..(MaxNow + 62)
                  \cup (0 - 3)..(MaxNow + 3)}
  \cup {Nil, Str(<<"0">>), Bool}

CallValidateIat(iat) ==
  /\ checked' = Checked("validateIat", iat, now, leeway, validateIat(iat))
  /\ UNCHANGED <<config, Adaptor, metadataCache, now, fetchCount, pc, call, got, ret>>

InitClaims ==
  /\ Issuer \in {ExampleIssuer, ExampleIssuer \o <<"/">>}
  /\ Adaptor = LestrratGoJwx
  /\ ClaimsToValidate \in ExpectedMaps
  /\ leeway = DefaultLeeway
  /\ Timeout = NewTimeout(0)
  /\ Cleanup = NewCleanup(0)
  /\ metadataCache = NewDefaultCache(Timeout, Cleanup)
  /\ now = 0
  /\ fetchCount = 0
  /\ pc = [p \in Procs |-> "idle"]
  /\ call = [p \in Procs |-> NoCall]
  /\ got = [p \in Procs |-> NoGot]
  /\ ret = NoReturn
  /\ checked = NoChecked

NextClaims ==
  \/ \E duration \in Durations : SetLeeway(duration)
  \/ \E exp \in ExpValues : CallValidateExp(exp)
  \/ \E iat \in IatValues : CallValidateIat(iat)
  \/ Tick

SpecClaims == InitClaims /\ [][NextClaims]_vars

\* ------------------------------- the claim checks that compare, called alone
\* The aud and cid claims tried: strings, typed and JSON-decoded lists of at
\* most MaxListLen elements (the expected value, another string, a number),
\* and values of other types.
SeqsUpTo(S, n) == UNION {[1..k -> S] : k \in 0..n}

ClaimValues(expected) ==
  {Str(expected), Str(<<"other">>), Str(<<>>), Nil, Num(1), Bool}
  \cup {StrList(l) : l \in SeqsUpTo({expected, <<"other">>}, MaxListLen)}
  \cup {AnyList(e) : e \in SeqsUpTo({EStr(expected), EStr(<<"other">>), ENum(1)},
                                     MaxListLen)}

AudValues == ClaimValues(<<"api://default">>)

CidValues == ClaimValues(<<"client1">>)

CallValidateAudience(aud) ==
  /\ checked' = Checked("validateAudience", aud, now, leeway, validateAudience(aud))
  /\ UNCHANGED <<config, Adaptor, metadataCache, now, fetchCount, pc, call, got, ret>>

CallValidateClientId(cid) ==
  /\ checked' = Checked("validateClientId", cid, now, leeway, validateClientId(cid))
  /\ UNCHANGED <<config, Adaptor, metadataCache, now, fetchCount, pc, call, got, ret>>

\* The iss claims tried: issuers with and without trailing slashes, and
\* values that are no string.
IssValues ==
  {Str(i \o t) : i \in {ExampleIssuer, <<"https://other.com">>, <<>>},
                 t \in {<<>>, <<"/">>, <<"/", "/">>}}
  \cup {Str(<<"<nil>">>), Nil, Num(1), Bool, StrList(<<ExampleIssuer>>)}

CallValidateIss(issuer) ==
  /\ checked' = Checked("validateIss", issuer, now, leeway, validateIss(issuer))
  /\ UNCHANGED <<config, Adaptor, metadataCache, now, fetchCount, pc, call, got, ret>>

NonceValues == {Nil, Str(<<>>), Str(<<"abc123">>), Str(<<"test">>), Num(1)}

CallValidateNonce(nonce) ==
  /\ checked' = Checked("validateNonce", nonce, now, leeway, validateNonce(nonce))
  /\ UNCHANGED <<config, Adaptor, metadataCache, now, fetchCount, pc, call, got, ret>>

\* The expected claims of ExpectedMaps, an empty nonce, and one value
\* expected of the aud and of the cid alike.
MatchMaps ==
  ExpectedMaps \cup {[k \in {"nonce"} |-> <<>>], [k \in {"aud", "cid"} |-> <<"client1">>]}

InitMatch ==
  /\ Issuer \in {ExampleIssuer, ExampleIssuer \o <<"/">>, <<"<nil>">>}
  /\ Adaptor = LestrratGoJwx
  /\ ClaimsToValidate \in MatchMaps
  /\ leeway = DefaultLeeway
  /\ Timeout = NewTimeout(0)
  /\ Cleanup = NewCleanup(0)
  /\ metadataCache = NewDefaultCache(Timeout, Cleanup)
  /\ now = 0
  /\ fetchCount = 0
  /\ pc = [p \in Procs |-> "idle"]
  /\ call = [p \in Procs |-> NoCall]
  /\ got = [p \in Procs |-> NoGot]
  /\ ret = NoReturn
  /\ checked = NoChecked

NextMatch ==
  \/ \E aud \in AudValues : CallValidateAudience(aud)
  \/ \E cid \in CidValues : CallValidateClientId(cid)
  \/ \E issuer \in IssValues : CallValidateIss(issuer)
  \/ \E nonce \in NonceValues : CallValidateNonce(nonce)

SpecMatch == InitMatch /\ [][NextMatch]_vars

\* --------------------------------------- one caller and the setters
\* SetTimeOut and SetCleanUp assign the field; the cache New() built is not
\* touched.  Durations are in seconds.
\* SetTimeOut that also sets the TTL of the cache in use.
SetTimeOutOnCache(duration) ==
  /\ Timeout' = duration
  /\ metadataCache' = [metadataCache EXCEPT !.ttl = duration]
  /\ UNCHANGED <<Issuer, Adaptor, ClaimsToValidate, leeway, Cleanup, now,
                 fetchCount, pc, call, got, ret, checked>>

SetTimeOut(duration) ==
  /\ Timeout' = duration
  /\ UNCHANGED <<Issuer, Adaptor, ClaimsToValidate, leeway, Cleanup, metadataCache, now,
                 fetchCount, pc, call, got, ret, checked>>

SetCleanUp(duration) ==
  /\ Cleanup' = duration
  /\ UNCHANGED <<Issuer, Adaptor, ClaimsToValidate, leeway, Timeout, metadataCache, now,
                 fetchCount, pc, call, got, ret, checked>>

\* A token that passes every check with the default leeway and fails the
\* exp or the iat check with a leeway of 0 or less.
EdgeTokens ==
  {Token(Str(ExampleIssuer), Str(<<"api://default">>), Nil, Num(exp), Num(iat), Nil) :
     exp \in {0, 0 - 1}, iat \in {0, 1}}

InitConfig ==
  /\ Issuer = ExampleIssuer
  /\ Adaptor = LestrratGoJwx
  /\ ClaimsToValidate = [k \in {"aud"} |-> <<"api://default">>]
  /\ leeway = DefaultLeeway
  /\ Timeout \in {NewTimeout(t) : t \in 0..1}
  /\ Cleanup = NewCleanup(0)
  /\ metadataCache = NewDefaultCache(Timeout, Cleanup)
  /\ now = 0
  /\ fetchCount = 0
  /\ pc = [p \in Procs |-> "idle"]
  /\ call = [p \in Procs |-> NoCall]
  /\ got = [p \in Procs |-> NoGot]
  /\ ret = NoReturn
  /\ checked = NoChecked

NextConfig ==
  \/ \E jwt \in {ValidJwt, <<>>} : VerifyIdToken(1, jwt)
  \/ \E jwt \in {ValidJwt, <<>>} : VerifyAccessToken(1, jwt)
  \/ \E resp \in {GoodMetadata, NotFound} : FetchDone(1, resp)
  \/ \E t \in EdgeTokens : VerifyIdTokenRest(1, Decoded(FALSE, t))
  \/ \E t \in EdgeTokens : VerifyAccessTokenRest(1, Decoded(FALSE, t))
  \/ \E duration \in {"0s", "2m"} : SetLeeway(duration)
  \/ \E duration \in 1..MaxTimeout : SetTimeOut(duration)
  \/ \E duration \in {1} : SetCleanUp(duration)
  \/ \E exp \in {Num(0 - 1), Nil} : CallValidateExp(exp)
  \/ \E iat \in {Num(1), Nil} : CallValidateIat(iat)

SpecConfig == InitConfig /\ [][NextConfig]_vars

\* --------------------------------------- a verifier from the struct on
\* The metadataCache field of a JwtVerifier that New() has not built yet.
NilCache == [ttl |-> 0, cleanup |-> 0, entries |-> {}, inflight |-> {}]

ErrNewAdaptor == "adaptor.New"
ErrNewCache == "j.Cache"

\* What New() leaves behind, by the place it returns from: "adaptor" when
\* adaptor.New() fails (tried only when no adaptor is set), "cache" when
\* j.Cache fails, "ok" when it returns the verifier.  The call is recorded
\* with the Timeout and Cleanup, the leeway and the error it ends with.
NewReturn(outcome, t, c, lw) ==
  Checked("New", AnyList(<<ENum(t), ENum(c)>>), now, lw,
          CASE outcome = "adaptor" -> Err("", ErrNewAdaptor)
            [] outcome = "cache" -> Err("", ErrNewCache)
            [] OTHER -> NoErr)

\* New() that leaves the leeway as it finds it.
NewKeepsLeeway(outcome) ==
  /\ \A p \in Procs : pc[p] = "idle"
  /\ outcome = "adaptor" => Adaptor = "nil"
  /\ Timeout' = NewTimeout(Timeout)
  /\ Cleanup' = NewCleanup(Cleanup)
  /\ Adaptor' = IF outcome = "adaptor" THEN Adaptor ELSE LestrratGoJwx
  /\ leeway' = leeway
  /\ metadataCache' = IF outcome = "ok" THEN NewDefaultCache(Timeout', Cleanup')
                      ELSE metadataCache
  /\ checked' = NewReturn(outcome, Timeout', Cleanup', leeway')
  /\ UNCHANGED <<Issuer, ClaimsToValidate, now, fetchCount, pc, call, got, ret>>

\* New(), called between the verifications of the caller: the defaults of
\* Timeout and Cleanup, the default adaptor when none is set, the leeway,
\* then the metadata cache built from j.Timeout and j.Cleanup.
New(outcome) ==
  /\ \A p \in Procs : pc[p] = "idle"
  /\ outcome = "adaptor" => Adaptor = "nil"
  /\ Timeout' = NewTimeout(Timeout)
  /\ Cleanup' = NewCleanup(Cleanup)
  /\ Adaptor' = IF outcome = "adaptor" THEN Adaptor ELSE LestrratGoJwx
  /\ leeway' = IF outcome = "adaptor" THEN leeway ELSE DefaultLeeway
  /\ metadataCache' = IF outcome = "ok" THEN NewDefaultCache(Timeout', Cleanup')
                      ELSE metadataCache
  /\ checked' = NewReturn(outcome, Timeout', Cleanup', leeway')
  /\ UNCHANGED <<Issuer, ClaimsToValidate, now, fetchCount, pc, call, got, ret>>

\* The struct before New(): no adaptor, no cache, the leeway 0, the
\* Timeout and Cleanup given or left 0.
InitNew ==
  /\ Issuer = ExampleIssuer
  /\ Adaptor = "nil"
  /\ ClaimsToValidate = [k \in {"aud"} |-> <<"api://default">>]
  /\ leeway = 0
  /\ Timeout \in 0..1
  /\ Cleanup = 0
  /\ metadataCache = NilCache
  /\ now = 0
  /\ fetchCount = 0
  /\ pc = [p \in Procs |-> "idle"]
  /\ call = [p \in Procs |-> NoCall]
  /\ got = [p \in Procs |-> NoGot]
  /\ ret = NoReturn
  /\ checked = NoChecked

\* The verify functions are called on the verifier New() returned.
NextNew ==
  \/ \E outcome \in {"ok", "adaptor", "cache"} : New(outcome)
  \/ \E duration \in {"0s", "1m"} : SetLeeway(duration)
  \/ \E duration \in 1..MaxTimeout : SetTimeOut(duration)
  \/ \E duration \in {1} : SetCleanUp(duration)
  \/ \E exp \in {Num(0 - 1)} : CallValidateExp(exp)
  \/ \E iat \in {Num(1)} : CallValidateIat(iat)
  \/ metadataCache # NilCache /\ VerifyIdToken(1, ValidJwt)
  \/ metadataCache # NilCache /\ VerifyAccessToken(1, ValidJwt)
  \/ FetchDone(1, GoodMetadata)
  \/ VerifyIdTokenRest(1, Decoded(FALSE, GoodToken))
  \/ VerifyAccessTokenRest(1, Decoded(FALSE, GoodToken))

SpecNew == InitNew /\ [][NextNew]_vars


\* ------------------------------------------------------------ properties
\* The checks a returned verification made after the adaptor's decode.
ChecksRan == SubSeq(ret.trace, 4, Len(ret.trace))

Min(S) == CHOOSE i \in S : \A j \in S : i <= j

\* The return the checks named in order (wrapped by the messages in wraps)
\* have to give on the token the adaptor decoded: the error of the first
\* check that fails, and no check run after it.
FirstFailure(order, wraps) ==
  LET failing == {i \in 1..Len(order) : Check(order[i], ret.decoded.Claims) # NoErr}
  IN IF failing = {}
     THEN ret.err = NoErr /\ ChecksRan = order
     ELSE LET k == Min(failing)
          IN /\ ret.err = [Check(order[k], ret.decoded.Claims) EXCEPT !.wrap = wraps[k]]
             /\ ChecksRan = SubSeq(order, 1, k)

\* C1: a VerifyIdToken that got a decoded token from the adaptor ran the
\* structural validation, the metadata lookup and the decode, then the checks
\* Issuer, Audience, Expiry, Issued-At, Nonce in that order; it returns the
\* error of the first one that fails and runs none after it.
C1_IdTokenCheckOrder ==
  (ret.fn = "VerifyIdToken" /\ ~ret.decoded.nil) =>
    /\ SubSeq(ret.trace, 1, 3) = <<"isValidJwt", "getMetaData", "Decode">>
    /\ FirstFailure(<<"validateIss", "validateAudience", "validateExp", "validateIat",
                      "validateNonce">>,
                    <<WrapIss, WrapAud, WrapExp, WrapIat, WrapNonce>>)

\* A token failing both the audience and the nonce check was reported as an
\* audience failure.
C1_Witness ==
  /\ ret.fn = "VerifyIdToken"
  /\ ~ret.decoded.nil
  /\ validateNonce(ret.decoded.Claims.nonce) # NoErr
  /\ validateAudience(ret.decoded.Claims.aud) # NoErr
  /\ ret.err.wrap = WrapAud

\* C2: a VerifyAccessToken that got a decoded token ran the checks Issuer,
\* Audience, Client ID, Expiry, Issued-At in that order and returns the first
\* failure among them; the nonce check is never run, so neither the nonce
\* claim nor the configured nonce has a part in the result.
C2_AccessTokenCheckOrder ==
  (ret.fn = "VerifyAccessToken" /\ ~ret.decoded.nil) =>
    /\ SubSeq(ret.trace, 1, 3) = <<"isValidJwt", "getMetaData", "Decode">>
    /\ FirstFailure(<<"validateIss", "validateAudience", "validateClientId", "validateExp",
                      "validateIat">>,
                    <<WrapIss, WrapAud, WrapCid, WrapExp, WrapIat>>)
    /\ \A i \in 1..Len(ret.trace) : ret.trace[i] # "validateNonce"

\* An access token was accepted although its nonce does not match the
\* configured one.
C2_Witness ==
  /\ ret.fn = "VerifyAccessToken"
  /\ ~ret.decoded.nil
  /\ validateNonce(ret.decoded.Claims.nonce) # NoErr
  /\ ret.err = NoErr

ClaimWraps == {WrapIss, WrapAud, WrapCid, WrapExp, WrapIat, WrapNonce}

\* C3: a verification that succeeds or fails in a claim check returns a Jwt
\* whose Claims are the token the adaptor decoded; one that fails in the
\* structural validation, the metadata fetch or the adaptor returns nil.
C3_ClaimSetReturned ==
  ret.p # 0 =>
    /\ (ret.err = NoErr \/ ret.err.wrap \in ClaimWraps) =>
         (~ret.jwt.nil /\ ~ret.decoded.nil /\ ret.jwt.Claims = ret.decoded.Claims)
    /\ (\/ ret.err.wrap \in {WrapNotValid, ErrRequest, ErrDecode}
        \/ ret.err.msg \in {ErrStatus, ErrBody}) => ret.jwt.nil

\* An access token rejected for its client id came back with its claims.
C3_Witness ==
  /\ ret.fn = "VerifyAccessToken"
  /\ ret.err.wrap = WrapCid
  /\ ~ret.jwt.nil
  /\ ret.jwt.Claims.cid = Str(<<"other">>)

\* A caller enters a verification with a valid token / its fetch returns.
Entered(p) == pc[p] = "idle" /\ pc'[p] # "idle"
FetchReturned(p) == pc[p] = "fetch" /\ pc'[p] = "got"
Fetching == {p \in Procs : pc[p] = "fetch"}
EntriesOf(cache, key) == {e \in cache.entries : e.key = key}

\* C4: a caller that finds a fetch in flight for the metadata URL waits for
\* it and starts none; callers wait only while exactly one caller fetches;
\* when the fetch returns every waiting caller receives its result.
C4_SingleFetch ==
  [][/\ \A p \in Procs :
          (Entered(p) /\ MetaDataUrl \in metadataCache.inflight) =>
            (pc'[p] = "wait" /\ fetchCount' = fetchCount)
     /\ (\E q \in Procs : pc[q] = "wait") => Cardinality(Fetching) = 1
     /\ Cardinality(Fetching) <= 1
     /\ \A p \in Procs :
          FetchReturned(p) =>
            \A q \in Procs : pc[q] = "wait" => (pc'[q] = "got" /\ got'[q] = got'[p])]_vars

\* Two callers hold the result of the one fetch made so far.
C4_Witness ==
  \E p, q \in Procs :
    /\ p # q
    /\ pc[p] = "got" /\ pc[q] = "got"
    /\ got[p] = got[q]
    /\ got[p].resp # NoResponse
    /\ fetchCount = 1

\* C5: when a fetch fails the cache holds no entry for the key afterwards,
\* and a verification entered while the key has no live entry and no fetch
\* in flight invokes the fetch again.
C5_FailedFetchNotCached ==
  [][/\ \A p \in Procs :
          (FetchReturned(p) /\ got'[p].err # NoErr) =>
            /\ EntriesOf(metadataCache', MetaDataUrl) = {}
            /\ MetaDataUrl \notin metadataCache'.inflight
     /\ \A p \in Procs :
          (/\ Entered(p)
           /\ \A e \in EntriesOf(metadataCache, MetaDataUrl) : now >= e.expires
           /\ MetaDataUrl \notin metadataCache.inflight) =>
            (pc'[p] = "fetch" /\ fetchCount' = fetchCount + 1)]_vars

\* The caller whose last verification failed on the fetch has the metadata
\* of a second fetch.
C5_Witness ==
  \E p \in Procs :
    /\ ret.p = p
    /\ ret.err.msg = ErrStatus
    /\ fetchCount = 2
    /\ pc[p] = "got"
    /\ got[p].err = NoErr
    /\ got[p].resp = GoodMetadata

\* C6: an entry stored at time T with TTL d expires at T + d; an access at a
\* time in [T, T + d) is served the entry with no fetch and leaves the cache
\* as it is; no step but the return of a fetch adds or changes an entry; the
\* access that finds the entry at or after T + d starts one fetch; a
\* successful fetch is stored with expiry = its time + d.
C6_ServedUntilExpiry ==
  [][/\ \A e \in EntriesOf(metadataCache, MetaDataUrl) :
          e.expires = e.at + metadataCache.ttl
     /\ \A p \in Procs : \A e \in EntriesOf(metadataCache, MetaDataUrl) :
          (Entered(p) /\ e.at <= now /\ now < e.at + metadataCache.ttl) =>
            /\ pc'[p] = "got"
            /\ got'[p] = Result(e.value, NoErr, NoResponse)
            /\ fetchCount' = fetchCount
            /\ metadataCache' = metadataCache
     /\ (\A p \in Procs : ~FetchReturned(p)) =>
          metadataCache'.entries \subseteq metadataCache.entries
     /\ \A p \in Procs : \A e \in EntriesOf(metadataCache, MetaDataUrl) :
          (Entered(p) /\ now >= e.at + metadataCache.ttl) =>
            (pc'[p] = "fetch" /\ fetchCount' = fetchCount + 1)
     /\ \A p \in Procs :
          (FetchReturned(p) /\ got'[p].err = NoErr) =>
            EntriesOf(metadataCache', MetaDataUrl) =
              {Entry(MetaDataUrl, got'[p].value, now, now + metadataCache.ttl)}]_vars

\* The caller whose last verification was served from the cache has the
\* metadata of the refetch that followed the expiry.
C6_Witness ==
  \E p \in Procs :
    /\ ret.p = p
    /\ ret.err = NoErr
    /\ ret.resp = NoResponse
    /\ fetchCount = 2
    /\ pc[p] = "got"
    /\ got[p].resp = GoodMetadata
    /\ \E e \in EntriesOf(metadataCache, MetaDataUrl) : e.at >= metadataCache.ttl

\* C7: a verification whose metadata fetch was answered with a status
\* outside [200,300) returns the error that carries the metadata URL (issuer
\* + well-known suffix) and the status code, without the adaptor being
\* called and without a Jwt.
C7_StatusNot2xx ==
  (/\ ret.p # 0
   /\ ret.resp # NoResponse
   /\ ~ret.resp.failed
   /\ (ret.resp.StatusCode < 200 \/ ret.resp.StatusCode >= 300)) =>
    /\ ret.err = [wrap |-> "", msg |-> ErrStatus, url |-> Issuer \o WellKnownUrl,
                  code |-> ret.resp.StatusCode]
    /\ \A i \in 1..Len(ret.trace) : ret.trace[i] # "Decode"
    /\ ret.jwt.nil

\* The endpoint answered 404 to the fetch of a VerifyIdToken.
C7_Witness ==
  /\ ret.fn = "VerifyIdToken"
  /\ ret.arg = ValidJwt
  /\ ret.resp = NotFound
  /\ ret.err.code = 404
  /\ ret.err.url = ExampleIssuer \o WellKnownUrl

\* The error of a token that fails the pattern.
NotValidShape == [Err("", ErrShape) EXCEPT !.wrap = WrapNotValid]

\* C8 as stated: every string that does not match the pattern fails with
\* the "at least 1 period" error and no Jwt.
C8_AnyString ==
  (ret.p # 0 /\ ~regx(ret.arg)) => (ret.err = NotValidShape /\ ret.jwt.nil)

\* C8: every string but the empty one that does not match the pattern fails,
\* in VerifyIdToken and in VerifyAccessToken, with the "at least 1 period"
\* error and no Jwt.
C8_NonEmptyString ==
  (ret.p # 0 /\ ret.arg # <<>> /\ ~regx(ret.arg)) =>
    (ret.err = NotValidShape /\ ret.jwt.nil)

\* "aa" was rejected by VerifyAccessToken.
C8_Witness ==
  /\ ret.fn = "VerifyAccessToken"
  /\ ret.arg = <<"a", "a">>
  /\ ret.err.msg = ErrShape

\* The header of a token, decoded: whether it is base64 of a JSON object (or
\* null), and its alg and kid.
HeaderOf(jwt) ==
  LET headerDecoded == DecodeString(padHeader(FirstPart(jwt)))
      jsonObject == Unmarshal(headerDecoded.bytes)
  IN [ok |-> headerDecoded.ok /\ jsonObject.ok, alg |-> jsonObject.alg,
      kid |-> jsonObject.kid]

OtherAlg(jwt) ==
  /\ HeaderOf(jwt).ok
  /\ HeaderOf(jwt).alg # Absent
  /\ HeaderOf(jwt).alg # EStr(<<"RS256">>)

NotValidAlg == [Err("", ErrAlg) EXCEPT !.wrap = WrapNotValid]

\* C9 as stated: every token (a string of the pattern's shape) whose header
\* has an alg other than "RS256" fails with "the only supported alg is
\* RS256", whatever else the header and the token hold.
C9_AnyToken ==
  (ret.p # 0 /\ OtherAlg(ret.arg) /\ regx(ret.arg)) => ret.err = NotValidAlg

\* C9: every token that matches the pattern and whose header has a kid and
\* an alg other than "RS256" fails with "the only supported alg is RS256",
\* whatever the rest of the token is.
C9_ShapedTokenWithKid ==
  (ret.p # 0 /\ OtherAlg(ret.arg) /\ regx(ret.arg) /\ HeaderOf(ret.arg).kid # Absent) =>
    (ret.err = NotValidAlg /\ ret.jwt.nil)

\* A token with the alg "rs256" was rejected for its alg.
C9_Witness ==
  /\ ret.p # 0
  /\ FirstPart(ret.arg) = <<W_LOWER>>
  /\ ret.err.msg = ErrAlg

\* C10: validateExp of a number fails with "the token is expired" exactly
\* when now - leeway > exp and returns nil otherwise; of anything else it
\* fails with "exp: missing".  With the leeway 120, exp = now - 1000 and
\* now - 300 fail, exp = now + 1, now and now - 120 pass.
C10_ValidateExp ==
  checked.fn = "validateExp" =>
    /\ checked.arg.t = "float64" =>
         checked.err = IF checked.at - checked.leeway > checked.arg.n
                       THEN Err("", ErrExpired) ELSE NoErr
    /\ checked.arg.t # "float64" => checked.err = Err("", ErrExpMissing)
    /\ (checked.leeway = 120 /\ checked.arg.t = "float64") =>
         /\ checked.arg.n \in {checked.at - 1000, checked.at - 300} =>
              checked.err.msg = ErrExpired
         /\ checked.arg.n \in {checked.at + 1, checked.at, checked.at - 120} =>
              checked.err = NoErr

\* With the leeway 120, exp = now - 120 passed.
C10_Witness ==
  /\ checked.fn = "validateExp"
  /\ checked.leeway = 120
  /\ checked.arg = Num(checked.at - 120)
  /\ checked.err = NoErr

\* C11: validateIat of a number fails with "the token was issued in the
\* future" exactly when now + leeway < iat and returns nil otherwise; of
\* anything else it fails with "iat: missing".  With the leeway 120,
\* iat = now + 1000 and now + 300 fail, iat = now and now + 120 pass.
C11_ValidateIat ==
  checked.fn = "validateIat" =>
    /\ checked.arg.t = "float64" =>
         checked.err = IF checked.at + checked.leeway < checked.arg.n
                       THEN Err("", ErrIatFuture) ELSE NoErr
    /\ checked.arg.t # "float64" => checked.err = Err("", ErrIatMissing)
    /\ (checked.leeway = 120 /\ checked.arg.t = "float64") =>
         /\ checked.arg.n \in {checked.at + 1000, checked.at + 300} =>
              checked.err.msg = ErrIatFuture
         /\ checked.arg.n \in {checked.at, checked.at + 120} =>
              checked.err = NoErr

\* With the leeway 120, iat = now + 120 passed at a time after the start.
C11_Witness ==
  /\ checked.fn = "validateIat"
  /\ checked.leeway = 120
  /\ checked.at > 0
  /\ checked.arg = Num(checked.at + 120)
  /\ checked.err = NoErr

\* The strings a claim value lists, when it is a list of strings only
\* (a []string, or a JSON-decoded list whose elements are all strings).
IsStringList(v) ==
  \/ v.t = "[]string"
  \/ v.t = "[]interface{}" /\ \A i \in 1..Len(v.e) : v.e[i].t = "string"

StringsOf(v) ==
  {v.l[i] : i \in 1..Len(v.l)} \cup {v.e[i].s : i \in 1..Len(v.e)}

\* C12: validateAudience returns nil for every claim when no aud is
\* configured.  With an aud configured it returns nil for a string equal to
\* it and for a list of strings that contains it, and fails with "aud: ...
\* does not match ..." for another string and for a list of strings that
\* does not contain it.
C12_ValidateAudience ==
  checked.fn = "validateAudience" =>
    /\ ~MapHas(ClaimsToValidate, "aud") => checked.err = NoErr
    /\ MapHas(ClaimsToValidate, "aud") =>
         /\ checked.arg.t = "string" =>
              checked.err = IF checked.arg.s = ClaimsToValidate["aud"]
                            THEN NoErr ELSE Err("", ErrAud)
         /\ IsStringList(checked.arg) =>
              checked.err = IF ClaimsToValidate["aud"] \in StringsOf(checked.arg)
                            THEN NoErr ELSE Err("", ErrAud)

\* The list ["other", "api://default"], JSON-decoded, passed the check
\* against the configured "api://default".
C12_Witness ==
  /\ checked.fn = "validateAudience"
  /\ MapHas(ClaimsToValidate, "aud")
  /\ checked.arg = AnyList(<<EStr(<<"other">>), EStr(ClaimsToValidate["aud"])>>)
  /\ checked.err = NoErr

\* C13: validateClientId returns nil for every claim (string, list, number,
\* absent) when no cid is configured; with a cid configured, a string claim
\* different from it fails with "cid: ... does not match ...".
C13_ValidateClientId ==
  checked.fn = "validateClientId" =>
    /\ ~MapHas(ClaimsToValidate, "cid") => checked.err = NoErr
    /\ (/\ MapHas(ClaimsToValidate, "cid")
        /\ checked.arg.t = "string"
        /\ checked.arg.s # ClaimsToValidate["cid"]) => checked.err = Err("", ErrCid)

\* With no cid configured (but an aud), a JSON-decoded list with a number in
\* it passed.
C13_Witness ==
  /\ checked.fn = "validateClientId"
  /\ ~MapHas(ClaimsToValidate, "cid")
  /\ MapHas(ClaimsToValidate, "aud")
  /\ checked.arg = AnyList(<<ENum(1)>>)
  /\ checked.err = NoErr

\* Two strings are equal once the '/' that end them are dropped: they share
\* a stem that does not end in '/', and only '/' follow it in each.
OnlySlashes(s, k) == \A i \in (k + 1)..Len(s) : s[i] = "/"

EqualButSlashes(a, b) ==
  \E k \in 0..Len(a) :
    /\ k <= Len(b)
    /\ SubSeq(a, 1, k) = SubSeq(b, 1, k)
    /\ k > 0 => a[k] # "/"
    /\ OnlySlashes(a, k)
    /\ OnlySlashes(b, k)

\* C14: validateIss returns nil exactly when the claim, formatted with %v,
\* and the configured issuer are equal once their trailing '/' are dropped,
\* and fails with "iss: ... does not match ..." otherwise.  The configured
\* "https://example.com/" matches the claim "https://example.com" and the
\* other way round; an absent iss claim (formatted "<nil>") is a mismatch
\* for every issuer that is a URL.
C14_ValidateIss ==
  checked.fn = "validateIss" =>
    /\ checked.err = IF EqualButSlashes(Sprintf(checked.arg), Issuer)
                     THEN NoErr ELSE Err("", ErrIss)
    /\ (/\ {checked.arg.s, Issuer} = {ExampleIssuer, ExampleIssuer \o <<"/">>}
        /\ checked.arg.t = "string") => checked.err = NoErr
    /\ (checked.arg = Nil /\ Issuer[1] = ExampleIssuer[1]) =>
         checked.err = Err("", ErrIss)

\* The claim "https://example.com" passed against the configured
\* "https://example.com/".
C14_Witness ==
  /\ checked.fn = "validateIss"
  /\ Issuer = ExampleIssuer \o <<"/">>
  /\ checked.arg = Str(ExampleIssuer)
  /\ checked.err = NoErr

\* C15: validateNonce takes an absent claim for the empty string and an
\* unconfigured nonce for the empty string, returns nil exactly when the
\* claim is a string equal to the configured nonce, and fails with "nonce:
\* ... does not match ..." otherwise.
C15_ValidateNonce ==
  checked.fn = "validateNonce" =>
    LET configured == IF MapHas(ClaimsToValidate, "nonce")
                      THEN ClaimsToValidate["nonce"] ELSE <<>>
        passes == \/ checked.arg = Nil /\ configured = <<>>
                  \/ checked.arg.t = "string" /\ checked.arg.s = configured
    IN checked.err = IF passes THEN NoErr ELSE Err("", ErrNonce)

\* A token carrying a nonce failed the check of a verifier with no nonce
\* configured.
C15_Witness ==
  /\ checked.fn = "validateNonce"
  /\ ~MapHas(ClaimsToValidate, "nonce")
  /\ checked.arg = Str(<<"abc123">>)
  /\ checked.err = Err("", ErrNonce)

StepErrors ==
  <<ErrEmptyString, ErrShape, ErrBase64, ErrJson, ErrNoAlg, ErrNoKid, ErrAlg>>

StepRejects(k, jwt, header, object) ==
  CASE k = 1 -> jwt = <<>>
    [] k = 2 -> ~regx(jwt)
    [] k = 3 -> ~header.ok
    [] k = 4 -> ~object.ok
    [] k = 5 -> object.alg = Absent
    [] k = 6 -> object.kid = Absent
    [] k = 7 -> object.alg # EStr(<<"RS256">>)

Rejecting(jwt) ==
  LET header == DecodeString(padHeader(FirstPart(jwt)))
      object == Unmarshal(header.bytes)
  IN {k \in 1..Len(StepErrors) : StepRejects(k, jwt, header, object)}

C18_FailFast ==
  [][(ret' # ret /\ Rejecting(ret'.arg) # {}) =>
       /\ metadataCache' = metadataCache
       /\ fetchCount' = fetchCount
       /\ pc' = pc /\ got' = got
       /\ ret'.trace = <<"isValidJwt">>
       /\ ret'.err # NoErr /\ ret'.jwt.nil
       /\ ret'.decoded.nil /\ ret'.resp = NoResponse]_vars

\* A token was rejected for its structure by a verifier whose cache held a
\* fetched document.
C18_Witness ==
  /\ Rejecting(ret.arg) # {}
  /\ ret.err.wrap = WrapNotValid
  /\ fetchCount > 0
  /\ metadataCache.entries # {}

\* The stages of a verify function in order, and what the latest return
\* tells of each: whether the metadata document was obtained (from the
\* response, or from the cache when no request was made), whether it holds
\* a jwks_uri string, and the claim checks the decoded token fails.
StagesOf(fn) == <<"isValidJwt", "getMetaData", "Decode">> \o ChecksOf(fn)

CachedDocs == {e.value : e \in {x \in metadataCache.entries : x.key = MetaDataUrl}}

MetadataObtained ==
  IF ret.resp = NoResponse THEN CachedDocs # {}
  ELSE /\ ~ret.resp.failed
       /\ ret.resp.StatusCode \in 200..299
       /\ ret.resp.kind \in {"object", "null"}

JwksUriFound ==
  IF ret.resp = NoResponse THEN \E doc \in CachedDocs : doc.jwks_uri.t = "string"
  ELSE ret.resp.kind = "object" /\ ret.resp.jwks_uri.t = "string"

FailedChecks ==
  {i \in 1..Len(ChecksOf(ret.fn)) : Check(ChecksOf(ret.fn)[i], ret.decoded.Claims) # NoErr}

\* C19: a verify function returns nil as its error only when the token
\* passed the structural validation, the metadata document was obtained
\* with its jwks_uri, the adaptor decoded the token and every claim check
\* of the function passed, all stages having run in order; when a stage
\* fails the function returns an error and the stages it ran end with the
\* one that failed.
C19_Pipeline ==
  ret # NoReturn =>
    /\ ret.trace = SubSeq(StagesOf(ret.fn), 1, Len(ret.trace))
    /\ ret.err = NoErr =>
         /\ Rejecting(ret.arg) = {}
         /\ MetadataObtained /\ JwksUriFound
         /\ ~ret.decoded.nil
         /\ FailedChecks = {}
         /\ ret.trace = StagesOf(ret.fn)
    /\ ret.err # NoErr =>
         CASE Rejecting(ret.arg) # {} -> Len(ret.trace) = 1
           [] Rejecting(ret.arg) = {} /\ ~(MetadataObtained /\ JwksUriFound) ->
                Len(ret.trace) = 2
           [] Rejecting(ret.arg) = {} /\ MetadataObtained /\ JwksUriFound
                /\ ret.decoded.nil -> Len(ret.trace) = 3
           [] OTHER -> FailedChecks # {} /\ Len(ret.trace) = 3 + Min(FailedChecks)

\* An access token was accepted on a document served from the cache.
C19_Witness ==
  /\ ret.fn = "VerifyAccessToken"
  /\ ret.err = NoErr
  /\ ret.resp = NoResponse
  /\ ret.trace = StagesOf(ret.fn)
  /\ MapHas(ClaimsToValidate, "cid")

\* The places of a JSON-decoded list that hold no string, and those that
\* hold the string s.
NonStrings(v) == {i \in 1..Len(v.e) : v.e[i].t # "string"}

Places(v, s) == {i \in 1..Len(v.e) : v.e[i] = EStr(s)}

\* C20 as claimed: with an aud configured, a list with an element that is
\* no string fails with "unknown type for audience validation" wherever
\* the element is and whether or not the list holds the expected value.
C20_NonStringAnywhere ==
  (/\ checked.fn = "validateAudience"
   /\ MapHas(ClaimsToValidate, "aud")
   /\ checked.arg.t = "[]interface{}"
   /\ NonStrings(checked.arg) # {}) => checked.err = Err("", ErrAudType)

\* C20, amended: such a list fails with that error unless the expected
\* value stands in the list before the first element that is no string;
\* then the check returns nil.
C20_NonStringBeforeMatch ==
  (/\ checked.fn = "validateAudience"
   /\ MapHas(ClaimsToValidate, "aud")
   /\ checked.arg.t = "[]interface{}"
   /\ NonStrings(checked.arg) # {}) =>
    LET hits == Places(checked.arg, ClaimsToValidate["aud"])
    IN checked.err = IF hits # {} /\ Min(hits) < Min(NonStrings(checked.arg))
                     THEN NoErr ELSE Err("", ErrAudType)

\* The list [1, "api://default"] failed for the type of its first element.
C20_Witness ==
  /\ checked.fn = "validateAudience"
  /\ MapHas(ClaimsToValidate, "aud")
  /\ checked.arg = AnyList(<<ENum(1), EStr(ClaimsToValidate["aud"])>>)
  /\ checked.err = Err("", ErrAudType)

\* C21: with one value expected of the aud and of the cid, validateClientId
\* accepts a string, a typed list of strings or a JSON-decoded list exactly
\* when validateAudience accepts it.
C21_SameRuleAsAudience ==
  (/\ checked.fn = "validateClientId"
   /\ MapHas(ClaimsToValidate, "cid") /\ MapHas(ClaimsToValidate, "aud")
   /\ ClaimsToValidate["cid"] = ClaimsToValidate["aud"]
   /\ checked.arg.t \in {"string", "[]string", "[]interface{}"}) =>
    (checked.err = NoErr <=> validateAudience(checked.arg) = NoErr)

\* C22: when the metadata document was obtained and holds no jwks_uri, or
\* one that is no string, the verify function returns the missing-jwks_uri
\* error and no Jwt, and the adaptor's Decode is not among the stages run.
C22_NoJwksUriNoDecode ==
  (/\ ret # NoReturn
   /\ Rejecting(ret.arg) = {}
   /\ MetadataObtained
   /\ ~JwksUriFound) =>
    /\ ret.err = Err("", ErrJwksUri)
    /\ ret.jwt.nil
    /\ ret.decoded.nil
    /\ \A i \in 1..Len(ret.trace) : ret.trace[i] # "Decode"

\* A verification failed on a document, served from the cache, whose
\* jwks_uri is a number.
C22_Witness ==
  /\ Rejecting(ret.arg) = {}
  /\ ret.resp = NoResponse
  /\ CachedDocs = {Metadata(ENum(1))}
  /\ ret.err.msg = ErrJwksUri
  /\ ret.jwt.nil

\* A step in which a call of New() returns, and one in which validateExp or
\* validateIat is called.
NewReturns == checked' # checked /\ checked'.fn = "New"

TimeCheckCalled == checked' # checked /\ checked'.fn \in {"validateExp", "validateIat"}

\* What a time check is to answer at the time of the call when it uses the
\* leeway lw.
TimeCheckWith(lw) ==
  IF checked'.fn = "validateExp"
  THEN IF now - lw > checked'.arg.n THEN Err("", ErrExpired) ELSE NoErr
  ELSE IF now + lw < checked'.arg.n THEN Err("", ErrIatFuture) ELSE NoErr

\* C23 as claimed: every call of New() leaves the leeway at 120.
C23_NewAlwaysSetsLeeway == [][NewReturns => leeway' = DefaultLeeway]_vars

\* C23, amended: a call of New() that gets past the building of its
\* adaptor leaves the leeway at 120 whatever SetLeeway set before; a call
\* that fails there leaves the leeway as it was.  The leeway changes in no
\* step of a verification or claim check, and validateExp and validateIat
\* answer by the leeway of the moment, the one the latest SetLeeway or New()
\* left.
C23_LeewayInUse ==
  [][/\ (NewReturns /\ checked'.err.msg # ErrNewAdaptor) => leeway' = DefaultLeeway
     /\ (NewReturns /\ checked'.err.msg = ErrNewAdaptor) => leeway' = leeway
     /\ TimeCheckCalled =>
          /\ leeway' = leeway
          /\ checked'.leeway = leeway
          /\ checked'.err = TimeCheckWith(leeway)
     /\ leeway' # leeway =>
          /\ UNCHANGED <<now, fetchCount, pc, call, got, ret>>
          /\ checked' = checked \/ checked'.fn = "New"]_vars

\* After New() returned the verifier and SetLeeway("0s") was called on it,
\* validateExp rejected a token that the default leeway lets through.
C23_Witness ==
  /\ metadataCache # NilCache
  /\ leeway = 0
  /\ checked = Checked("validateExp", Num(0 - 1), now, 0, Err("", ErrExpired))

\* C24: the cache a call of New() builds has the TTL and cleanup interval
\* that Timeout and Cleanup hold when it is built (the defaults put in), and
\* they change only when New() builds a cache again; a step that changes
\* Timeout or Cleanup otherwise (SetTimeOut, SetCleanUp) changes that one
\* field and leaves the cache, its entries and their expiry times as they
\* were; every entry expires its cache's TTL after it was stored.
C24_CacheFixedAtNew ==
  [][/\ (NewReturns /\ checked'.err = NoErr) =>
          /\ Timeout' = NewTimeout(Timeout) /\ Cleanup' = NewCleanup(Cleanup)
          /\ metadataCache'.ttl = Timeout' /\ metadataCache'.cleanup = Cleanup'
     /\ (\/ metadataCache'.ttl # metadataCache.ttl
         \/ metadataCache'.cleanup # metadataCache.cleanup) =>
          NewReturns /\ checked'.err = NoErr
     /\ ((Timeout' # Timeout \/ Cleanup' # Cleanup) /\ ~NewReturns) =>
          /\ metadataCache' = metadataCache
          /\ Timeout' = Timeout \/ Cleanup' = Cleanup
          /\ UNCHANGED <<Issuer, Adaptor, ClaimsToValidate, leeway, now, fetchCount,
                         pc, call, got, ret, checked>>
     /\ \A e \in metadataCache'.entries : e.expires = e.at + metadataCache'.ttl]_vars

\* The cache holds a document fetched under the TTL New() gave it, after
\* SetTimeOut and SetCleanUp changed both fields.
C24_Witness ==
  /\ metadataCache.entries # {}
  /\ Timeout # metadataCache.ttl
  /\ Cleanup # metadataCache.cleanup
  /\ \A e \in metadataCache.entries : e.expires = e.at + metadataCache.ttl

====
